---- MODULE Spec2Model ----
(***************************************************************************)
(* A model of calc_makespan (src/calc_makespan.py): the step validation,   *)
(* the feasibility check and the discrete-event loop with its retire,      *)
(* admit and advance phases.  One action per phase of the function; the    *)
(* two for-loops of an iteration are folded over the list they scan, in    *)
(* the order the code scans it.                                            *)
(***************************************************************************)
EXTENDS Integers, Sequences, FiniteSets, TLC

\* ------------------------------------------------------------------ bounds
MaxSamples == 2
MaxTasks == 3
\* where the count of loop iterations stops counting
MaxIterations == 20

\* the file sizes and the machines the inputs are drawn from
FileSizes == {0, 1, 2}
CpuCaps == {1, 2}
MemoryCaps == {1, 2}

\* math.inf, larger than every finite time of the model
inf == 1000000
\* None: the value of a field or a local that has not been assigned yet
None == -2000000

VARIABLES
    file_sizes,          \* input: sizes of the files, in input order
    max_memory,          \* input
    max_cpus,            \* input
    tasks,               \* the caller's list of PipelineTask (sorted in place)
    tasks_in,            \* history: the caller's list as it was passed in
    samples,             \* list of Sample
    all_jobs,            \* all_jobs[i][j]: task i (sorted order), sample j
    num_remaining_jobs,
    available_mem,
    available_cpus,
    schedule,            \* list of references <<i, j>> into all_jobs
    makespan,
    t,
    next_t,
    pc,                  \* position in calc_makespan
    result,              \* the returned value, None until the return
    retired,             \* history: retired[<<i, j>>] = times the job was retired
    admitted,            \* history: admitted[<<i, j>>] = times the job was admitted
    iterations           \* history: times the loop body was entered

vars == <<file_sizes, max_memory, max_cpus, tasks, tasks_in, samples, all_jobs,
          num_remaining_jobs, available_mem, available_cpus, schedule, makespan,
          t, next_t, pc, result, retired, admitted, iterations>>

inputs == <<file_sizes, max_memory, max_cpus, tasks_in>>

\* ----------------------------------------------------------------- helpers
min(a, b) == IF a <= b THEN a ELSE b
max(a, b) == IF a >= b THEN a ELSE b

\* float addition with math.inf absorbing
Plus(a, b) == IF a = inf THEN inf ELSE a + b

\* PipelineTask.__init__ with the default parallel_func
PipelineTask(step, time_factor, space_factor, cpus) ==
    [step |-> step, time_factor |-> time_factor,
     space_factor |-> space_factor, cpus |-> cpus]

\* the default parallel_func: size * time // cpus
parallel_func(size, time, cpus) == (size * time) \div cpus

\* Sample.__init__
Sample(sample_id, file_size) ==
    [sample_id |-> sample_id, file_size |-> file_size, steps_completed |-> 0]

\* Job.__init__; sample is the index of the shared Sample object
Job(j, sample, task) ==
    [sample |-> j,
     task |-> task,
     duration |-> parallel_func(sample.file_size, task.time_factor, task.cpus),
     memory |-> sample.file_size * task.space_factor,
     cpus |-> task.cpus,
     is_running |-> FALSE,
     start_time |-> None,
     end_time |-> None]

\* list.sort(key = step): a stable insertion sort
RECURSIVE InsertByStep(_, _)
InsertByStep(x, s) ==
    IF s = <<>> THEN <<x>>
    ELSE IF x.step < Head(s).step THEN <<x>> \o s
    ELSE <<Head(s)>> \o InsertByStep(x, Tail(s))

RECURSIVE SortByStep(_)
SortByStep(s) ==
    IF s = <<>> THEN <<>>
    ELSE InsertByStep(Head(s), SortByStep(Tail(s)))

\* ------------------------------------------------------------- validation
\* a step check that only rejects a step below its index
StepsValidLax(ts) == \A i \in 1..Len(ts) : ts[i].step >= i - 1

\* "Return -1 if any step is invalid": the sorted list has step i at index i
\* (indices are 1-based here, 0-based in the code)
StepsValid(ts) == \A i \in 1..Len(ts) : ts[i].step = i - 1

\* a feasibility check that looks at the jobs of the first stage only
JobsFeasibleFirstRow(jobs, mm, mc) ==
    \A i \in 1..min(1, Len(jobs)) : \A j \in 1..Len(jobs[i]) :
        ~(jobs[i][j].memory > mm \/ jobs[i][j].cpus > mc)

\* "Return -1 if any job is impossible"
JobsFeasible(jobs, mm, mc) ==
    \A i \in 1..Len(jobs) : \A j \in 1..Len(jobs[i]) :
        ~(jobs[i][j].memory > mm \/ jobs[i][j].cpus > mc)

\* the job matrix: row i holds task i for every sample
BuildJobs(ts, ss) ==
    [i \in 1..Len(ts) |-> [j \in 1..Len(ss) |-> Job(j, ss[j], ts[i])]]

\* a scan that takes the samples in the outer loop and the tasks in the inner
RECURSIVE ColRefs(_, _, _)
ColRefs(i, m, j) == IF i > m THEN <<>> ELSE <<(<<i, j>>)>> \o ColRefs(i + 1, m, j)

RECURSIVE ColsFrom(_, _, _, _)
ColsFrom(j, i, m, n) ==
    IF j > n THEN <<>> ELSE ColRefs(i, m, j) \o ColsFrom(j + 1, i, m, n)

ScanOrderBySample(i, m, n) == ColsFrom(1, i, m, n)

\* the jobs in the order the admit phase scans them
RECURSIVE RowRefs(_, _, _)
RowRefs(i, j, n) == IF j > n THEN <<>> ELSE <<(<<i, j>>)>> \o RowRefs(i, j + 1, n)

RECURSIVE ScanOrder(_, _, _)
ScanOrder(i, m, n) ==
    IF i > m THEN <<>> ELSE RowRefs(i, 1, n) \o ScanOrder(i + 1, m, n)

JobRefs(jobs) == {r \in (1..Len(jobs)) \X (1..MaxSamples + 1) :
                    r[2] <= Len(jobs[r[1]])}

\* ----------------------------------------------------------- retire phase
\* a retire step that forgets to count the job as done
RetireJobKeepCount(st, ref, clock) ==
    LET i == ref[1]
        j == ref[2]
        job == st.jobs[i][j]
    IN  IF job.end_time = clock
        THEN [st EXCEPT
                !.jobs[i][j].is_running = FALSE,
                !.cpus = @ + job.cpus,
                !.mem = @ + job.memory,
                !.samples[j].steps_completed = @ + 1,
                !.retired[ref] = @ + 1]
        ELSE IF job.end_time > clock /\ job.is_running
        THEN [st EXCEPT !.next_t = min(@, job.end_time)]
        ELSE st

\* a retire step that does not record the jobs still running as candidates
RetireJobNoCandidate(st, ref, clock) ==
    LET i == ref[1]
        j == ref[2]
        job == st.jobs[i][j]
    IN  IF job.end_time = clock
        THEN [st EXCEPT
                !.jobs[i][j].is_running = FALSE,
                !.cpus = @ + job.cpus,
                !.mem = @ + job.memory,
                !.samples[j].steps_completed = @ + 1,
                !.rem = @ - 1,
                !.retired[ref] = @ + 1]
        ELSE st

\* one iteration of "for job in schedule"
RetireJob(st, ref, clock) ==
    LET i == ref[1]
        j == ref[2]
        job == st.jobs[i][j]
    IN  IF job.end_time = clock
        THEN [st EXCEPT
                !.jobs[i][j].is_running = FALSE,
                !.cpus = @ + job.cpus,
                !.mem = @ + job.memory,
                !.samples[j].steps_completed = @ + 1,
                !.rem = @ - 1,
                !.retired[ref] = @ + 1]
        ELSE IF job.end_time > clock /\ job.is_running
        THEN [st EXCEPT !.next_t = min(@, job.end_time)]
        ELSE st

RECURSIVE RetireFrom(_, _, _, _)
RetireFrom(k, sched, st, clock) ==
    IF k > Len(sched) THEN st
    ELSE RetireFrom(k + 1, sched, RetireJob(st, sched[k], clock), clock)

\* ------------------------------------------------------------ admit phase
\* an admit condition that does not look at is_running
RunnableWhileRunning(st, ref) ==
    LET job == st.jobs[ref[1]][ref[2]]
    IN  /\ st.samples[ref[2]].steps_completed = job.task.step
        /\ job.cpus <= st.cpus
        /\ job.memory <= st.mem

\* the condition of the if in the admit loop
Runnable(st, ref) ==
    LET job == st.jobs[ref[1]][ref[2]]
    IN  /\ ~job.is_running
        /\ st.samples[ref[2]].steps_completed = job.task.step
        /\ job.cpus <= st.cpus
        /\ job.memory <= st.mem

\* an admit step that takes the job's duration for the next event time
AdmitJobNextByDuration(st, ref, clock) ==
    LET i == ref[1]
        j == ref[2]
        job == st.jobs[i][j]
        end == Plus(clock, job.duration)
    IN  IF Runnable(st, ref)
        THEN [st EXCEPT
                !.jobs[i][j].is_running = TRUE,
                !.jobs[i][j].start_time = clock,
                !.jobs[i][j].end_time = end,
                !.cpus = @ - job.cpus,
                !.mem = @ - job.memory,
                !.next_t = min(@, job.duration),
                !.makespan = max(@, end),
                !.schedule = Append(@, ref),
                !.admitted[ref] = @ + 1]
        ELSE st

\* one iteration of "for step in all_jobs: for job in step"
AdmitJob(st, ref, clock) ==
    LET i == ref[1]
        j == ref[2]
        job == st.jobs[i][j]
        end == Plus(clock, job.duration)
    IN  IF Runnable(st, ref)
        THEN [st EXCEPT
                !.jobs[i][j].is_running = TRUE,
                !.jobs[i][j].start_time = clock,
                !.jobs[i][j].end_time = end,
                !.cpus = @ - job.cpus,
                !.mem = @ - job.memory,
                !.next_t = min(@, end),
                !.makespan = max(@, end),
                !.schedule = Append(@, ref),
                !.admitted[ref] = @ + 1]
        ELSE st

\* an admit phase that stops at the first job it admits
RECURSIVE AdmitFirstOnly(_, _, _, _)
AdmitFirstOnly(k, order, st, clock) ==
    IF k > Len(order) THEN st
    ELSE IF Runnable(st, order[k]) THEN AdmitJob(st, order[k], clock)
    ELSE AdmitFirstOnly(k + 1, order, st, clock)

RECURSIVE AdmitFrom(_, _, _, _)
AdmitFrom(k, order, st, clock) ==
    IF k > Len(order) THEN st
    ELSE AdmitFrom(k + 1, order, AdmitJob(st, order[k], clock), clock)

\* the locals the two phases read and write
LoopState ==
    [jobs |-> all_jobs, cpus |-> available_cpus, mem |-> available_mem,
     samples |-> samples, rem |-> num_remaining_jobs, next_t |-> next_t,
     makespan |-> makespan, schedule |-> schedule,
     retired |-> retired, admitted |-> admitted]

\* -------------------------------------------------------------- the inputs
SeqsUpTo(S, n) == UNION {[1..k -> S] : k \in 0..n}

\* the cost profiles of the tasks: one that takes no time, one that takes no
\* memory, one that needs two CPUs
NoTime == PipelineTask(0, 0, 1, 1)
NoMemory == PipelineTask(0, 1, 0, 1)
TwoCpus == PipelineTask(0, 3, 2, 2)
Profiles == {NoTime, NoMemory, TwoCpus}

WithSteps(ps, steps) ==
    [k \in 1..Len(ps) |-> [ps[k] EXCEPT !.step = steps[k]]]

\* task lists: every list of steps over 0..n for tasks of one cost profile,
\* and every list of cost profiles with the steps in ascending or in
\* descending order
TaskLists ==
    UNION {
        {WithSteps([k \in 1..n |-> TwoCpus], steps) : steps \in [1..n -> 0..n]}
        \cup
        {WithSteps(ps, [k \in 1..n |-> k - 1]) : ps \in [1..n -> Profiles]}
        \cup
        {WithSteps(ps, [k \in 1..n |-> n - k]) : ps \in [1..n -> Profiles]}
      : n \in 0..MaxTasks}

Init ==
    /\ file_sizes \in SeqsUpTo(FileSizes, MaxSamples)
    /\ max_memory \in MemoryCaps
    /\ max_cpus \in CpuCaps
    /\ tasks_in \in TaskLists
    /\ tasks = tasks_in
    /\ samples = <<>>
    /\ all_jobs = <<>>
    /\ num_remaining_jobs = None
    /\ available_mem = None
    /\ available_cpus = None
    /\ schedule = <<>>
    /\ makespan = None
    /\ t = None
    /\ next_t = None
    /\ pc = "validate"
    /\ result = None
    /\ retired = <<>>
    /\ admitted = <<>>
    /\ iterations = 0

\* ------------------------------------------------------------- the actions
\* lines 27-37: build the samples, sort the tasks, check the steps
Validate ==
    /\ pc = "validate"
    /\ samples' = [j \in 1..Len(file_sizes) |-> Sample(j - 1, file_sizes[j])]
    /\ tasks' = SortByStep(tasks)
    /\ IF StepsValid(tasks')
       THEN pc' = "build" /\ UNCHANGED result
       ELSE pc' = "done" /\ result' = -1
    /\ UNCHANGED <<inputs, iterations, all_jobs, num_remaining_jobs, available_mem,
                   available_cpus, schedule, makespan, t, next_t, retired,
                   admitted>>

\* lines 41-56: build the job matrix, check feasibility, set up the loop
Build ==
    /\ pc = "build"
    /\ all_jobs' = BuildJobs(tasks, samples)
    /\ num_remaining_jobs' = Len(tasks) * Len(file_sizes)
    /\ retired' = [r \in JobRefs(all_jobs') |-> 0]
    /\ admitted' = [r \in JobRefs(all_jobs') |-> 0]
    /\ IF JobsFeasible(all_jobs', max_memory, max_cpus)
       THEN /\ available_mem' = max_memory
            /\ available_cpus' = max_cpus
            /\ schedule' = <<>>
            /\ makespan' = 0
            /\ t' = 0
            /\ pc' = "loop"
            /\ UNCHANGED result
       ELSE /\ pc' = "done"
            /\ result' = -1
            /\ UNCHANGED <<available_mem, available_cpus, schedule, makespan, t>>
    /\ UNCHANGED <<inputs, iterations, tasks, samples, next_t>>

\* line 59 and 62: the loop test, and next_t = inf at the top of the body
LoopEnter ==
    /\ pc = "loop"
    /\ num_remaining_jobs > 0
    /\ next_t' = inf
    /\ pc' = "retire"
    /\ iterations' = min(iterations + 1, MaxIterations)
    /\ UNCHANGED <<inputs, tasks, samples, all_jobs, num_remaining_jobs,
                   available_mem, available_cpus, schedule, makespan, t,
                   result, retired, admitted>>

\* line 59 and 95: the loop test fails, return makespan
Return ==
    /\ pc = "loop"
    /\ ~(num_remaining_jobs > 0)
    /\ result' = makespan
    /\ pc' = "done"
    /\ UNCHANGED <<inputs, iterations, tasks, samples, all_jobs, num_remaining_jobs,
                   available_mem, available_cpus, schedule, makespan, t,
                   next_t, retired, admitted>>

\* lines 66-74
Retire ==
    /\ pc = "retire"
    /\ LET st == RetireFrom(1, schedule, LoopState, t)
       IN  /\ all_jobs' = st.jobs
           /\ available_cpus' = st.cpus
           /\ available_mem' = st.mem
           /\ samples' = st.samples
           /\ num_remaining_jobs' = st.rem
           /\ next_t' = st.next_t
           /\ retired' = st.retired
    /\ pc' = "admit"
    /\ UNCHANGED <<inputs, iterations, tasks, schedule, makespan, t, result, admitted>>

\* lines 78-91
Admit ==
    /\ pc = "admit"
    /\ LET order == ScanOrder(1, Len(all_jobs), Len(samples))
           st == AdmitFrom(1, order, LoopState, t)
       IN  /\ all_jobs' = st.jobs
           /\ available_cpus' = st.cpus
           /\ available_mem' = st.mem
           /\ next_t' = st.next_t
           /\ makespan' = st.makespan
           /\ schedule' = st.schedule
           /\ admitted' = st.admitted
    /\ pc' = "advance"
    /\ UNCHANGED <<inputs, iterations, tasks, samples, num_remaining_jobs, t, result,
                   retired>>

\* line 93
Advance ==
    /\ pc = "advance"
    /\ t' = next_t
    /\ pc' = "loop"
    /\ UNCHANGED <<inputs, iterations, tasks, samples, all_jobs, num_remaining_jobs,
                   available_mem, available_cpus, schedule, makespan, next_t,
                   result, retired, admitted>>

Next ==
    \/ Validate
    \/ Build
    \/ LoopEnter
    \/ Return
    \/ Retire
    \/ Admit
    \/ Advance

Spec == Init /\ [][Next]_vars

\* ===================================================== the properties checked
RECURSIVE SumSeq(_)
SumSeq(s) == IF s = <<>> THEN 0 ELSE Head(s) + SumSeq(Tail(s))

RECURSIVE MaxSeq(_)
MaxSeq(s) == IF s = <<>> THEN 0 ELSE max(Head(s), MaxSeq(Tail(s)))

\* every job of the matrix, and the job a reference names
Order == ScanOrder(1, Len(all_jobs), Len(samples))
JobAt(ref) == all_jobs[ref[1]][ref[2]]
Refs == {Order[k] : k \in 1..Len(Order)}

RunningCpus ==
    SumSeq([k \in 1..Len(Order) |->
              IF JobAt(Order[k]).is_running THEN JobAt(Order[k]).cpus ELSE 0])
RunningMem ==
    SumSeq([k \in 1..Len(Order) |->
              IF JobAt(Order[k]).is_running THEN JobAt(Order[k]).memory ELSE 0])

\* the positions between two phases of the loop
AtPhaseBoundary == pc \in {"loop", "admit", "advance"}
InLoop == pc \in {"loop", "retire", "admit", "advance"}
Returned == pc = "done" /\ result # -1

\* the inputs, read without the code's sort
NumTasksIn == Len(tasks_in)
NumSamplesIn == Len(file_sizes)
ExactSteps ==
    \A v \in 0..NumTasksIn - 1 :
        Cardinality({k \in 1..NumTasksIn : tasks_in[k].step = v}) = 1
TaskOfStep(v) == tasks_in[CHOOSE k \in 1..NumTasksIn : tasks_in[k].step = v]
DurationIn(v, j) ==
    (file_sizes[j] * TaskOfStep(v).time_factor) \div TaskOfStep(v).cpus
MemoryIn(v, j) == file_sizes[j] * TaskOfStep(v).space_factor
SomeJobInfeasible ==
    \E k \in 1..NumTasksIn : \E j \in 1..NumSamplesIn :
        \/ tasks_in[k].cpus > max_cpus
        \/ file_sizes[j] * tasks_in[k].space_factor > max_memory

\* C1: at every phase boundary of the loop the free CPUs plus the CPUs of the
\* running jobs are max_cpus, and the free memory plus the memory of the
\* running jobs is max_memory.
C1_ResourceConservation ==
    AtPhaseBoundary =>
        /\ available_cpus + RunningCpus = max_cpus
        /\ available_mem + RunningMem = max_memory

\* the jobs that are co-resident at the clock value t
CoResident == {r \in Refs : /\ JobAt(r).start_time # None
                            /\ JobAt(r).start_time <= t
                            /\ t < JobAt(r).end_time}
CoResidentSeq == [k \in 1..Len(Order) |-> Order[k] \in CoResident]
C2_PoolsWithinCapacity ==
    /\ 0 <= available_cpus /\ available_cpus <= max_cpus
    /\ 0 <= available_mem /\ available_mem <= max_memory
C2_CoResidentWithinCapacity ==
    /\ SumSeq([k \in 1..Len(Order) |->
                 IF CoResidentSeq[k] THEN JobAt(Order[k]).cpus ELSE 0]) <= max_cpus
    /\ SumSeq([k \in 1..Len(Order) |->
                 IF CoResidentSeq[k] THEN JobAt(Order[k]).memory ELSE 0]) <= max_memory

\* C2: in every state of the simulation the co-resident jobs fit in the
\* machine, and the two pools stay within [0, max_cpus] and [0, max_memory].
C2_CapacityNeverExceeded ==
    InLoop => C2_PoolsWithinCapacity /\ C2_CoResidentWithinCapacity

\* C3: a job of stage k >= 1 that has been admitted follows an admitted and
\* finished job of stage k-1 of the same sample, and starts no earlier than
\* that job ended.
C3_Precedence ==
    \A r \in Refs :
        (r[1] >= 2 /\ JobAt(r).start_time # None) =>
            LET prev == <<r[1] - 1, r[2]>>
            IN  /\ admitted[prev] >= 1
                /\ retired[prev] >= 1
                /\ JobAt(prev).end_time # None
                /\ JobAt(r).start_time >= JobAt(prev).end_time

\* C4: when a makespan is returned every job of the matrix was admitted once
\* and retired once, and num_remaining_jobs is exactly 0.
C4_CompletenessOnSuccess ==
    Returned =>
        /\ num_remaining_jobs = 0
        /\ \A r \in Refs :
              /\ admitted[r] = 1
              /\ retired[r] = 1
              /\ JobAt(r).start_time # None
              /\ JobAt(r).end_time # None

\* C5: the returned value is the largest end_time of the numSamples x
\* numTasks jobs, each of which has one (0 when there are no jobs).
C5_MakespanCorrect ==
    Returned =>
        /\ \A r \in Refs : JobAt(r).end_time # None
        /\ result = MaxSeq([k \in 1..Len(Order) |-> JobAt(Order[k]).end_time])

\* C6: a list of steps that is not exactly 0..N-1 makes calc_makespan return
\* -1 before any job is built or any step of the simulation runs, whatever
\* the sizes and the capacities; a list that is exactly 0..N-1 passes the
\* check.
C6_InvalidStepSequence ==
    pc # "validate" =>
        IF ExactSteps
        THEN pc = "build" \/ num_remaining_jobs # None
        ELSE /\ pc = "done" /\ result = -1
             /\ all_jobs = <<>> /\ num_remaining_jobs = None
             /\ schedule = <<>> /\ t = None

\* the step check has failed on an input that also has an infeasible job
C6_Witness ==
    /\ pc = "done" /\ result = -1
    /\ ~ExactSteps
    /\ SomeJobInfeasible
    /\ \E k \in 1..NumTasksIn : tasks_in[k].step >= NumTasksIn

\* C7: with valid steps, -1 is returned, before the loop starts, exactly when
\* some job of the matrix needs more CPUs than max_cpus or more memory than
\* max_memory; otherwise the value returned is a makespan >= 0.
C7_InfeasibleJob ==
    ExactSteps =>
        /\ InLoop => ~SomeJobInfeasible
        /\ pc = "done" =>
              IF SomeJobInfeasible
              THEN result = -1 /\ t = None /\ schedule = <<>>
              ELSE result >= 0

\* -1 was returned for a job of a later stage; every job of stage 0 fits
C7_Witness ==
    /\ pc = "done" /\ result = -1
    /\ ExactSteps /\ NumTasksIn >= 2 /\ NumSamplesIn >= 1
    /\ TaskOfStep(0).cpus <= max_cpus
    /\ \A j \in 1..NumSamplesIn : MemoryIn(0, j) <= max_memory

\* C8: once the two checks have passed the loop exits and a makespan is
\* returned: the loop body is entered at most once per job and once more,
\* and when the loop has been left the value returned is the makespan.
C8_Termination ==
    /\ iterations <= NumTasksIn * NumSamplesIn + 1
    /\ (pc = "done" /\ t # None) =>
          (num_remaining_jobs <= 0 /\ result = makespan /\ result >= 0)

\* a run with a job of duration 0 and a clock that moved has returned
C8_Witness ==
    /\ Returned /\ result > 0
    /\ iterations >= 3
    /\ \E r \in Refs : JobAt(r).duration = 0 /\ admitted[r] >= 1

\* no job ever waits: each sample can hold its largest job at the same time
AmpleResources ==
    /\ SumSeq([j \in 1..NumSamplesIn |->
                 MaxSeq([k \in 1..NumTasksIn |-> tasks_in[k].cpus])]) <= max_cpus
    /\ SumSeq([j \in 1..NumSamplesIn |->
                 MaxSeq([k \in 1..NumTasksIn |->
                           file_sizes[j] * tasks_in[k].space_factor])]) <= max_memory

\* C9: with ample resources the returned makespan is the largest, over the
\* samples, of the sum of the sample's stage durations.
C9_AmpleResourcesMakespan ==
    (Returned /\ ExactSteps /\ AmpleResources) =>
        result = MaxSeq([j \in 1..NumSamplesIn |->
                           SumSeq([v \in 1..NumTasksIn |-> DurationIn(v - 1, j)])])

\* every task needs the whole CPU pool, and the memory holds every job
WholePoolTasks ==
    /\ ExactSteps
    /\ \A k \in 1..NumTasksIn : tasks_in[k].cpus = max_cpus
    /\ SumSeq([j \in 1..NumSamplesIn |->
                 SumSeq([k \in 1..NumTasksIn |->
                           file_sizes[j] * tasks_in[k].space_factor])]) <= max_memory

\* C10: when every task needs the whole CPU pool no two jobs run at the same
\* time, a job starts only after the job admitted before it has retired, and
\* the returned makespan is the sum of the durations of all jobs.
C10_ForcedSerialization ==
    WholePoolTasks =>
        /\ InLoop => Cardinality({r \in Refs : JobAt(r).is_running}) <= 1
        /\ InLoop => \A k \in 2..Len(schedule) :
                        /\ retired[schedule[k - 1]] >= 1
                        /\ JobAt(schedule[k]).start_time
                              >= JobAt(schedule[k - 1]).end_time
        /\ Returned =>
              result = SumSeq([j \in 1..NumSamplesIn |->
                                 SumSeq([v \in 1..NumTasksIn |-> DurationIn(v - 1, j)])])


\* C12: a job of duration 0 ends at the clock value it started at, and it and
\* every other job that ends at that clock value is retired once: its CPUs
\* and memory go back to the pools once and its sample's steps_completed
\* grows by 1 for it.
C12_ZeroDurationRetiredOnce ==
    \A r \in Refs :
        /\ (JobAt(r).duration = 0 /\ admitted[r] >= 1) =>
              JobAt(r).end_time = JobAt(r).start_time
        /\ (admitted[r] >= 1 /\ JobAt(r).end_time = t) => retired[r] <= 1

\* C13: a sample's steps_completed is the number of its jobs that have
\* finished, and is at most the number of tasks.
C13_StepsCompletedCountsFinishedJobs ==
    \A j \in 1..Len(samples) :
        /\ samples[j].steps_completed =
              Cardinality({r \in Refs : r[2] = j /\ retired[r] >= 1})
        /\ samples[j].steps_completed <= Len(tasks)


\* a job of duration 0 was admitted in the admit phase that has just ended
ZeroDurationJustAdmitted ==
    \E r \in Refs : JobAt(r).is_running /\ JobAt(r).end_time = t

\* C14 as stated: every advance of the clock moves it to a strictly larger
\* value.
C14_ClockStrictlyIncreasing == [][pc = "advance" => t' > t]_vars

\* C14, amended: the clock never goes back, and it moves to a strictly
\* larger value in every iteration that admits no job of duration 0.
C14_ClockNeverGoesBack ==
    [][pc = "advance" =>
          /\ t' >= t
          /\ ~ZeroDurationJustAdmitted => t' > t]_vars

\* the clock has stayed at 0 for a job of duration 0 and has then moved on
C14_Witness ==
    /\ pc = "loop" /\ 0 < t /\ t < inf
    /\ \E r \in Refs : /\ JobAt(r).duration = 0 /\ retired[r] >= 1
                       /\ JobAt(r).end_time = 0


\* what an admitted job keeps for good
Times(r) == <<JobAt(r).start_time, JobAt(r).end_time>>
IsAdmitted(r) == JobAt(r).start_time # None

\* C15: a job is admitted at most once; its start_time and end_time are set
\* together, differ by its duration and never change afterwards; it is
\* running from its admission until the retire phase at the clock value
\* end_time, which is the first to give its CPUs and memory back; and a job
\* that has finished is never running again.
C15_Step ==
    \A r \in Refs :
        /\ admitted'[r] <= 1
        /\ IsAdmitted(r)' <=> admitted'[r] = 1
        /\ IsAdmitted(r)' =>
              JobAt(r)'.end_time = JobAt(r)'.start_time + JobAt(r)'.duration
        /\ (r \in DOMAIN admitted /\ IsAdmitted(r)) => Times(r)' = Times(r)
        /\ JobAt(r)'.is_running <=> (admitted'[r] = 1 /\ retired'[r] = 0)
        /\ JobAt(r)'.is_running => t' <= JobAt(r)'.end_time
        /\ (r \in DOMAIN retired /\ retired'[r] > retired[r]) =>
              (pc = "retire" /\ JobAt(r).end_time = t)
C15_NoRestartNoPreemption == [][C15_Step]_vars

\* a job that ran for a while has been retired and the loop went on
C15_Witness ==
    /\ pc = "advance"
    /\ \E r \in Refs : /\ retired[r] = 1 /\ JobAt(r).duration > 0
                       /\ JobAt(r).end_time < t
    /\ \E r \in Refs : JobAt(r).is_running


\* the scan order of the admit phase, from the tasks' steps and the samples'
\* position in the input
StepOf(r) == JobAt(r).task.step
Before(q, r) ==
    \/ StepOf(q) < StepOf(r)
    \/ StepOf(q) = StepOf(r)
          /\ samples[q[2]].sample_id < samples[r[2]].sample_id
Eligible(r) ==
    ~JobAt(r).is_running /\ samples[r[2]].steps_completed = StepOf(r)
NewlyAdmitted(r) == admitted'[r] > admitted[r]
\* what the jobs of the list admitted in this phase and scanned before r
\* have taken
CpusTakenBefore(r, new) ==
    SumSeq([k \in 1..Len(new) |->
              IF Before(new[k], r) THEN JobAt(new[k]).cpus ELSE 0])
MemTakenBefore(r, new) ==
    SumSeq([k \in 1..Len(new) |->
              IF Before(new[k], r) THEN JobAt(new[k]).memory ELSE 0])
FitsAlone(r) ==
    JobAt(r).cpus <= available_cpus /\ JobAt(r).memory <= available_mem
FitTogether(q, r) ==
    /\ JobAt(q).cpus + JobAt(r).cpus <= available_cpus
    /\ JobAt(q).memory + JobAt(r).memory <= available_mem

\* C16: in an admit phase a job is admitted exactly when it is not running,
\* its sample's steps_completed is its task's step, and it fits in the pools
\* less what the jobs admitted before it in the scan (lower step, then lower
\* sample index) have taken; so of two eligible jobs that fit only one at a
\* time, the one scanned first is admitted and the other is not.
C16_Step ==
    pc = "admit" =>
        LET refs == Refs
            new == SelectSeq(schedule', LAMBDA x : NewlyAdmitted(x))
            eligible == {x \in refs : Eligible(x)}
        IN  /\ \A r \in refs :
                  NewlyAdmitted(r) <=>
                      /\ r \in eligible
                      /\ FitsAlone(r)
                      /\ JobAt(r).cpus <= available_cpus - CpusTakenBefore(r, new)
                      /\ JobAt(r).memory <= available_mem - MemTakenBefore(r, new)
            /\ Cardinality(eligible) = 2 =>
                  \A q, r \in eligible :
                     (Before(q, r) /\ FitsAlone(q) /\ FitsAlone(r)
                         /\ ~FitTogether(q, r))
                     => (NewlyAdmitted(q) /\ ~NewlyAdmitted(r))
C16_AdmissionPriority == [][C16_Step]_vars

\* a stage-0 job of a later sample was admitted at t while the next stage of
\* an earlier sample, which would fit in its place, waits
C16_Witness ==
    /\ pc = "advance"
    /\ \E q, r \in Refs :
          /\ StepOf(q) < StepOf(r)
          /\ samples[q[2]].sample_id > samples[r[2]].sample_id
          /\ JobAt(q).is_running /\ JobAt(q).start_time = t
          /\ Eligible(r) /\ admitted[r] = 0
          /\ JobAt(r).cpus <= available_cpus + JobAt(q).cpus
          /\ JobAt(r).memory <= available_mem + JobAt(q).memory
          /\ ~FitsAlone(r)


\* the earliest end_time of the jobs that are running, inf when none is
MinRunningEnd ==
    LET ends == {JobAt(r).end_time : r \in {x \in Refs : JobAt(x).is_running}}
    IN  IF ends = {} THEN inf
        ELSE CHOOSE e \in ends : \A f \in ends : e <= f

\* C17: at the end of an iteration the candidate next_t is the earliest
\* end_time of the jobs still running or admitted in the iteration, the clock
\* is set to it, and it is finite while num_remaining_jobs > 0.
C17_NextEventFound ==
    /\ pc = "advance" =>
          /\ next_t = MinRunningEnd
          /\ num_remaining_jobs > 0 => next_t < inf
    /\ (pc = "loop" /\ iterations >= 1) =>
          /\ t = MinRunningEnd
          /\ num_remaining_jobs > 0 => t < inf

\* the clock was set from two candidates: a job that was still running in
\* the retire phase and a job admitted after it
C17_Witness ==
    /\ pc = "loop" /\ num_remaining_jobs > 0 /\ t < inf
    /\ \E q, r \in Refs :
          /\ JobAt(q).is_running /\ JobAt(r).is_running
          /\ JobAt(r).start_time < JobAt(q).start_time
          /\ JobAt(q).end_time = t
          /\ t <= JobAt(r).end_time

\* C18: when an admit phase ends no job is left that is not running, is the
\* next stage of its sample and fits in what remains of the two pools.
C18_WorkConservation ==
    pc = "advance" =>
        \A r \in Refs :
            ~( /\ ~JobAt(r).is_running
               /\ samples[r[2]].steps_completed = JobAt(r).task.step
               /\ JobAt(r).cpus <= available_cpus
               /\ JobAt(r).memory <= available_mem )

\* two jobs were admitted in one admit phase and a third job, eligible, does
\* not fit in what they left
C18_Witness ==
    /\ pc = "advance"
    /\ \E q, r \in Refs :
          /\ q # r
          /\ JobAt(q).is_running /\ JobAt(q).start_time = t
          /\ JobAt(r).is_running /\ JobAt(r).start_time = t
    /\ \E r \in Refs : Eligible(r) /\ ~FitsAlone(r)

\* C19: when calc_makespan has returned, the caller's tasks list holds the
\* task definitions in the order it was passed in.
C19_InputsUnchanged == pc = "done" => tasks = tasks_in

====
